---- MODULE Spec2Model ----
(***************************************************************************)
(* Workflow Run Engine of CodeOS (class WorkflowEngine): one engine        *)
(* instance driving one run, its persisted run document (meta.json), its   *)
(* run log (logs.txt), the wall clock, and the process that may stop.      *)
(* Step indices are 0-based as in the source; steps[i] of the source is    *)
(* run.steps[i + 1] here.                                                   *)
(***************************************************************************)
EXTENDS Integers, Sequences, FiniteSets, TLC

\* ---------------------------------------------------------------- bounds
MaxSteps == 2
MaxRetries == 2
MaxClock == 3
MaxCalls == 3
MaxEntries == 3

\* ------------------------------------------------------ program constants
DefaultRetries == 1

\* Optional fields of a JavaScript object: the key is missing, the key is
\* present with the value undefined, or the key carries a value.
Absent == [tag |-> "absent"]
Undef == [tag |-> "undefined"]
Some(x) == [tag |-> "some", v |-> x]
IsSet(o) == o.tag = "some"

Roles == {"planner", "builder", "verifier", "reviewer"}

WorkflowStep(r) ==
  [role |-> r,
   name |-> CASE r = "planner" -> "Plan Generation"
              [] r = "builder" -> "Code Generation"
              [] r = "verifier" -> "Verification"
              [] OTHER -> "Review Summary"]

DEFAULT_WORKFLOWS ==
  << WorkflowStep("planner"), WorkflowStep("builder"),
     WorkflowStep("verifier"), WorkflowStep("reviewer") >>

\* The workflow configurations handed to executeWorkflow: the first N steps
\* of the default build workflow, N = 1..MaxSteps.
Configs == { SubSeq(DEFAULT_WORKFLOWS, 1, n) : n \in 1..MaxSteps }

\* Messages of the errors a role raises.
Msgs == {"lint failed", "Test failure"}

\* Artifacts a role returns (paths relative to the project root).
executeRole(role) ==
  CASE role = "planner" -> << ".codeos/plan/plan.md" >>
    [] role = "builder" -> << ".codeos/patches/0001.diff" >>
    [] role = "verifier" -> << ".codeos/reports/verify.json" >>
    [] OTHER -> << ".codeos/review/review.md" >>

VARIABLES
  run,        \* this.run: the in-memory WorkflowRun
  meta,       \* meta.json of the run directory: Absent or the parsed document
  log,        \* logs.txt: the records appended so far
  now,        \* the wall clock (in units of ClockUnit, never going back)
  pc,         \* where the engine's process is
  op,         \* the operation in progress or last finished
  arg,        \* its step index argument (retryFromStep) or its start index
  config,     \* executeWorkflow's config parameter
  retries,    \* executeWorkflow's retries option
  i,          \* the for loop's index
  attempts,   \* the while loop's counter
  lastError,  \* the while loop's lastError (Absent for null)
  startTime,  \* executeStep's startTime
  result,     \* how the last operation ended: "none", "returned", "raised"
  raised,     \* the message of the error it raised
  pre,        \* run, meta and log when the operation was called
  calls,      \* role invocations of the operation so far: <<index, outcome>>
  callsLeft,  \* role invocations the model still follows
  crashed,    \* whether the driving process has ever stopped
  runDir,     \* this.runDir (and with it logsPath and metaPath)
  dirs,       \* the run directories the engine has made under .codeos/run
  entries,    \* .codeos/run as listRuns finds it: Absent or its entries
  listed      \* what listRuns returned: Absent before the call

vars == << run, meta, log, now, pc, op, arg, config, retries, i, attempts,
           lastError, startTime, result, raised, pre, calls, callsLeft,
           crashed, runDir, dirs, entries, listed >>

\* The clock after a role has run: read in whole units, it may or may
\* not have moved on.  Time passes while a role runs and during the backoff
\* wait; the engine's own bookkeeping in between reads the same instant.
Later(t) == IF t < MaxClock THEN {t, t + 1} ELSE {t}

\* ----------------------------------------------------------- the run object
PendingStep(s) ==
  [step |-> s, status |-> "pending", startedAt |-> Absent,
   completedAt |-> Absent, duration |-> Absent, error |-> Absent,
   artifacts |-> Absent]

\* JSON.stringify leaves out the keys whose value is undefined.
Json(o) == IF o = Undef THEN Absent ELSE o

\* (mutant) the artifacts of a step are left out of the document.
JsonStepNoArtifacts(s) ==
  [step |-> s.step, status |-> s.status, startedAt |-> Json(s.startedAt),
   completedAt |-> Json(s.completedAt), duration |-> Json(s.duration),
   error |-> Json(s.error), artifacts |-> Absent]

JsonStep(s) ==
  [step |-> s.step, status |-> s.status, startedAt |-> Json(s.startedAt),
   completedAt |-> Json(s.completedAt), duration |-> Json(s.duration),
   error |-> Json(s.error), artifacts |-> Json(s.artifacts)]

\* The document saveMetadata writes and loadRun parses back.
Serialize(r) ==
  [id |-> r.id, workflow |-> r.workflow, startedAt |-> r.startedAt,
   completedAt |-> Json(r.completedAt), status |-> r.status,
   currentStep |-> r.currentStep,
   steps |-> [k \in 1..Len(r.steps) |-> JsonStep(r.steps[k])],
   error |-> Json(r.error)]

saveMetadata(r) == Some(Serialize(r))

\* JSON.parse of the text of a meta.json written by saveMetadata.
Parse(doc) == doc.v

LogEntry(level, message, step) ==
  [level |-> level, message |-> message, step |-> step]

\* (mutant) the warning does not tell which attempt failed.
RetryingEntryUncounted(step, n, r) ==
  [level |-> "warn", message |-> "Step failed, retrying", step |-> step,
   attempt |-> 0, of |-> r + 1]

\* The warning of the retry loop: `Step failed, retrying (n/r+1)`.
RetryingEntry(step, n, r) ==
  [level |-> "warn", message |-> "Step failed, retrying", step |-> step,
   attempt |-> n, of |-> r + 1]

\* The run id the constructor of the first engine allocates (a timestamp).
RunId == "run-0"

\* The run id the constructor of a later engine allocates.
FreshId == "run-1"

\* The directory of the run with the given id under <root>/.codeos/run.
RunDir(id) == << ".codeos", "run", id >>

\* constructor
Init ==
  /\ run = [id |-> RunId, workflow |-> "build", startedAt |-> 0,
            completedAt |-> Absent, status |-> "running", currentStep |-> 0,
            steps |-> << >>, error |-> Absent]
  /\ meta = Absent
  /\ log = << >>
  /\ now = 0
  /\ pc = "idle"
  /\ op = "none"
  /\ arg = 0
  /\ config = << >>
  /\ retries = 0
  /\ i = 0
  /\ attempts = 0
  /\ lastError = Absent
  /\ startTime = 0
  /\ result = "none"
  /\ raised = ""
  /\ pre = [run |-> run, meta |-> meta, log |-> log, now |-> now]
  /\ calls = << >>
  /\ callsLeft = MaxCalls
  /\ crashed = FALSE
  /\ runDir = RunDir(run.id)
  /\ dirs = {}
  /\ entries = Absent
  /\ listed = Absent

Snapshot == [run |-> run, meta |-> meta, log |-> log, now |-> now]

\* (mutant) the new step results are pushed onto the existing ones.
initializePush(r, cfg) ==
  [r EXCEPT !.steps = r.steps \o [k \in 1..Len(cfg) |-> PendingStep(cfg[k])]]

\* initialize: one pending result per configured step, saved and logged.
initialize(r, cfg) ==
  [r EXCEPT !.steps = [k \in 1..Len(cfg) |-> PendingStep(cfg[k])]]


\* Array.findIndex(s => s.status === 'pending' || s.status === 'failed'):
\* the 0-based index of the first such step, -1 when there is none.
ResumeStatuses == {"pending", "failed"}

\* (mutant) no match is reported as index 0.
findIndexOrZero(steps, statuses) ==
  LET hits == { k \in 1..Len(steps) : steps[k].status \in statuses }
  IN IF hits = {} THEN 0
     ELSE (CHOOSE k \in hits : \A h \in hits : k <= h) - 1

findIndex(steps, statuses) ==
  LET hits == { k \in 1..Len(steps) : steps[k].status \in statuses }
  IN IF hits = {} THEN -1
     ELSE (CHOOSE k \in hits : \A h \in hits : k <= h) - 1

\* (mutant) the upper bound of the range check is off by one.
InvalidStepIndexOffByOne(stepIndex, n) == stepIndex < 0 \/ stepIndex > n

\* retryFromStep's range check on its argument.
InvalidStepIndex(stepIndex, n) == stepIndex < 0 \/ stepIndex >= n

\* (mutant) the reset marks the step skipped.
ResetStepSkipped(s) ==
  [s EXCEPT !.status = "skipped", !.startedAt = Undef, !.completedAt = Undef,
            !.duration = Undef, !.error = Undef, !.artifacts = Undef]

\* (mutant) the reset leaves the error of the step in place.
ResetStepKeepsError(s) ==
  [s EXCEPT !.status = "pending", !.startedAt = Undef, !.completedAt = Undef,
            !.duration = Undef, !.artifacts = Undef]

\* retryFromStep's reset of one step result.
ResetStep(s) ==
  [s EXCEPT !.status = "pending", !.startedAt = Undef, !.completedAt = Undef,
            !.duration = Undef, !.error = Undef, !.artifacts = Undef]

\* (mutant) the reset starts at the first step of the run.
ResetFromStart(stepIndex) == 0

\* The first index retryFromStep resets, given its argument.
ResetFrom(stepIndex) == stepIndex

ResetSteps(steps, stepIndex) ==
  [k \in 1..Len(steps) |->
     IF k - 1 >= ResetFrom(stepIndex) THEN ResetStep(steps[k]) ELSE steps[k]]

\* Entering the for loop of executeWorkflow / executeWorkflowSteps.
EnterLoop(from, n) ==
  /\ i' = from
  /\ attempts' = 0
  /\ lastError' = Absent
  /\ pc' = IF from < n THEN "loop" ELSE "finish"

\* The loop's local variables are gone when the operation has ended.
LocalsGone ==
  /\ i' = 0
  /\ attempts' = 0
  /\ lastError' = Absent
  /\ startTime' = 0

\* (mutant) the steps of the built-in workflow instead of the run's own.
ConfigOfDefault(steps) == DEFAULT_WORKFLOWS

\* The workflow definition resume and retryFromStep rebuild from the
\* steps recorded in the run.
ConfigOf(steps) == [k \in 1..Len(steps) |-> steps[k].step]

BeginOp(name, a) ==
  /\ op' = name
  /\ arg' = a
  /\ pre' = Snapshot
  /\ calls' = << >>
  /\ UNCHANGED << callsLeft, crashed, runDir, entries, listed >>

\* executeWorkflow(config, provider, {retries}) on a new engine (start):
\* initialize, then the loop from step 0.
Start(cfg, r) ==
  /\ pc = "idle" /\ op = "none" /\ callsLeft > 0
  /\ BeginOp("start", 0)
  /\ config' = cfg
  /\ retries' = r
  /\ dirs' = dirs \cup {runDir}
  /\ run' = initialize(run, cfg)
  /\ meta' = saveMetadata(run')
  /\ log' = Append(log, LogEntry("info", "Workflow started", -1))
  /\ EnterLoop(0, Len(cfg))
  /\ result' = "none" /\ raised' = ""
  /\ UNCHANGED << now, startTime >>

\* resume: the first pending or failed step, then executeWorkflow from it
\* with the steps of the run as config and the default retries.
Resume ==
  /\ pc = "idle" /\ meta # Absent /\ callsLeft > 0
  /\ LET resumeFromStep == findIndex(run.steps, ResumeStatuses)
         cfg == ConfigOf(run.steps)
     IN /\ BeginOp("resume", resumeFromStep)
        /\ IF resumeFromStep = -1
           THEN /\ result' = "raised" /\ raised' = "No steps to resume"
                /\ UNCHANGED << run, meta, log, now, pc, config, retries, i,
                                attempts, lastError, startTime, dirs >>
           ELSE /\ config' = cfg
                /\ dirs' = dirs \cup {runDir}
                /\ retries' = DefaultRetries
                /\ run' = initialize(run, cfg)
                /\ meta' = saveMetadata(run')
                /\ log' = log \o << LogEntry("info", "Resuming workflow", resumeFromStep),
                                    LogEntry("info", "Workflow started", -1) >>
                /\ EnterLoop(resumeFromStep, Len(cfg))
                /\ result' = "none" /\ raised' = ""
                /\ UNCHANGED << now, startTime >>

\* retryFromStep(stepIndex): range check, reset of the steps from stepIndex
\* on and of the run status, then executeWorkflowSteps (no initialize).
RetryFromStep(stepIndex) ==
  /\ pc = "idle" /\ meta # Absent /\ callsLeft > 0
  /\ stepIndex <= Len(run.steps)
  /\ BeginOp("retryFromStep", stepIndex)
  /\ IF InvalidStepIndex(stepIndex, Len(run.steps))
     THEN /\ result' = "raised" /\ raised' = "Invalid step index"
          /\ UNCHANGED << run, meta, log, now, pc, config, retries, i,
                          attempts, lastError, startTime, dirs >>
     ELSE /\ run' = [run EXCEPT !.steps = ResetSteps(run.steps, stepIndex),
                                !.status = "running", !.error = Undef,
                                !.completedAt = Undef]
          /\ IF stepIndex + 1 \in DOMAIN run.steps
             THEN /\ log' = Append(log, LogEntry("info", "Retrying workflow from step", stepIndex))
                  /\ config' = ConfigOf(run.steps)
                  /\ retries' = DefaultRetries
                  /\ EnterLoop(stepIndex, Len(run.steps))
                  /\ result' = "none" /\ raised' = ""
             ELSE \* steps[stepIndex] is undefined: reading .step raises
                  /\ result' = "raised" /\ raised' = "TypeError"
                  /\ UNCHANGED << log, config, retries, i, attempts, lastError, pc >>
          /\ UNCHANGED << meta, now, startTime, dirs >>

\* (mutant) the step is marked running and logged, but not saved before
\* the role is called.
ExecuteStepBeginUnsaved ==
  /\ pc = "loop"
  /\ callsLeft > 0
  /\ run' = [run EXCEPT !.currentStep = i,
                        !.steps[i + 1].status = "running",
                        !.steps[i + 1].startedAt = Some(now)]
  /\ startTime' = now
  /\ log' = Append(log, LogEntry("info", "Starting step", i))
  /\ pc' = "role"
  /\ callsLeft' = callsLeft - 1
  /\ UNCHANGED << meta, now, op, arg, config, retries, i, attempts,
                  lastError, result, raised, pre, calls, crashed, runDir,
                  dirs, entries, listed >>

\* executeStep up to the call of the role: the step is marked running,
\* logged and saved.
ExecuteStepBegin ==
  /\ pc = "loop"
  /\ callsLeft > 0
  /\ run' = [run EXCEPT !.currentStep = i,
                        !.steps[i + 1].status = "running",
                        !.steps[i + 1].startedAt = Some(now)]
  /\ startTime' = now
  /\ log' = Append(log, LogEntry("info", "Starting step", i))
  /\ meta' = saveMetadata(run')
  /\ pc' = "role"
  /\ callsLeft' = callsLeft - 1
  /\ UNCHANGED << now, op, arg, config, retries, i, attempts, lastError,
                  result, raised, pre, calls, crashed, runDir, dirs,
                  entries, listed >>

\* The role returns its artifacts: executeStep records them and saves; the
\* while loop breaks and the for loop moves on.
RoleSucceeds ==
  /\ pc = "role"
  /\ \E t \in Later(now) :
       /\ run' = [run EXCEPT !.steps[i + 1].status = "completed",
                             !.steps[i + 1].completedAt = Some(t),
                             !.steps[i + 1].duration = Some(t - startTime),
                             !.steps[i + 1].artifacts =
                                Some(executeRole(run.steps[i + 1].step.role))]
       /\ now' = t
  /\ log' = Append(log, LogEntry("info", "Completed step", i))
  /\ meta' = saveMetadata(run')
  /\ calls' = Append(calls, << i, "ok" >>)
  /\ EnterLoop(i + 1, Len(config))
  /\ UNCHANGED << op, arg, config, retries, startTime, result, raised, pre,
                  callsLeft, crashed, runDir, dirs,
                  entries, listed >>

\* (mutant) the loop goes round once more than the retries allow.
RetryAgainOneMore(n, r) == n <= r + 1

\* (mutant) the loop condition is strict: one attempt fewer.
RetryAgainStrict(n, r) == n < r

\* Whether the while loop goes round again after a failed attempt.
RetryAgain(n, r) == n <= r

\* (mutant) the loop keeps the first error it caught.
CaughtErrorFirst(prev, msg) == IF prev = Absent THEN Some(msg) ELSE prev

\* The catch of the while loop: lastError is the error just caught.
CaughtError(prev, msg) == Some(msg)

\* The role raises: executeStep records the failure, saves and re-raises;
\* the while loop counts the attempt and, when attempts remain, logs a
\* warning and starts its backoff wait.
RoleFails(msg) ==
  /\ pc = "role"
  /\ \E t \in Later(now) :
       /\ run' = [run EXCEPT !.steps[i + 1].status = "failed",
                             !.steps[i + 1].completedAt = Some(t),
                             !.steps[i + 1].duration = Some(t - startTime),
                             !.steps[i + 1].error = Some(msg)]
       /\ now' = t
  /\ meta' = saveMetadata(run')
  /\ calls' = Append(calls, << i, "fail" >>)
  /\ lastError' = CaughtError(lastError, msg)
  /\ attempts' = attempts + 1
  /\ IF RetryAgain(attempts', retries)
     THEN /\ log' = log \o << LogEntry("error", "Failed step", i),
                              RetryingEntry(i, attempts', retries) >>
          /\ pc' = "backoff"
     ELSE /\ log' = Append(log, LogEntry("error", "Failed step", i))
          /\ pc' = "exhausted"
  /\ UNCHANGED << op, arg, config, retries, i, startTime, result, raised, pre,
                  callsLeft, crashed, runDir, dirs,
                  entries, listed >>

\* What one unit of the clock `now` stands for, in milliseconds.
ClockUnit == 1000

\* (mutant) the same wait before every retry.
BackoffDelayFixed(n) == 1000

\* The wait before the retry that follows the n-th failed attempt, in
\* milliseconds: setTimeout(resolve, 1000 * attempts).
BackoffDelay(n) == 1000 * n

\* The backoff wait is over: the timer fires no earlier than its delay,
\* and within one unit of the clock after it.
BackoffElapsed ==
  /\ pc = "backoff"
  /\ \E t \in now..MaxClock :
       /\ (t - now) * ClockUnit >= BackoffDelay(attempts)
       /\ (t - now) * ClockUnit <= BackoffDelay(attempts) + ClockUnit
       /\ now' = t
  /\ pc' = "loop"
  /\ UNCHANGED << run, meta, log, op, arg, config, retries, i, attempts,
                  lastError, startTime, result, raised, pre, calls, callsLeft,
                  crashed, runDir, dirs,
                  entries, listed >>

\* Retries exhausted: the run is marked failed and saved, the error is
\* raised, caught by the outer catch (marks failed again, logs), saved by
\* the finally and raised to the caller.
Exhausted ==
  /\ pc = "exhausted"
  /\ run' = [run EXCEPT !.status = "failed",
                        !.error = Some(lastError.v),
                        !.completedAt = Some(now)]
  /\ log' = Append(log, LogEntry("error", "Workflow failed", -1))
  /\ meta' = saveMetadata(run')
  /\ result' = "raised"
  /\ raised' = lastError.v
  /\ pc' = "idle"
  /\ LocalsGone
  /\ UNCHANGED << now, op, arg, config, retries, pre, calls, callsLeft,
                  crashed, runDir, dirs,
                  entries, listed >>

\* (mutant) the run is returned as completed without the finally's save.
CompleteUnsaved ==
  /\ pc = "finish"
  /\ run' = [run EXCEPT !.status = "completed", !.completedAt = Some(now)]
  /\ log' = Append(log, LogEntry("info", "Workflow completed successfully", -1))
  /\ result' = "returned"
  /\ pc' = "idle"
  /\ LocalsGone
  /\ UNCHANGED << meta, now, op, arg, config, retries, raised, pre, calls,
                  callsLeft, crashed, runDir, dirs,
                  entries, listed >>

\* The for loop is over: the run is marked completed, logged, saved and
\* returned.
Complete ==
  /\ pc = "finish"
  /\ run' = [run EXCEPT !.status = "completed", !.completedAt = Some(now)]
  /\ log' = Append(log, LogEntry("info", "Workflow completed successfully", -1))
  /\ meta' = saveMetadata(run')
  /\ result' = "returned"
  /\ pc' = "idle"
  /\ LocalsGone
  /\ UNCHANGED << now, op, arg, config, retries, raised, pre, calls,
                  callsLeft, crashed, runDir, dirs,
                  entries, listed >>

\* The process driving the run stops at one of the engine's suspension
\* points: while a role runs or during the backoff wait.
Crash ==
  /\ pc \in {"role", "backoff", "step"}
  /\ pc' = "stopped"
  /\ crashed' = TRUE
  /\ UNCHANGED << run, meta, log, now, op, arg, config, retries, i, attempts,
                  lastError, startTime, result, raised, pre, calls, callsLeft,
                  runDir, dirs, entries, listed >>

\* (mutant) the loaded engine keeps the directory of the run id its
\* constructor has just allocated.
LoadedRunDirFresh(runId, freshId) == RunDir(freshId)

\* The run directory of an engine returned by loadRun(root, runId): the
\* constructor's paths are replaced by those of runId.
LoadedRunDir(runId, freshId) == RunDir(runId)

\* loadRun: a new engine whose run is the parsed meta.json.
LoadRun ==
  /\ pc \in {"idle", "stopped"}
  /\ IsSet(meta)
  /\ pc = "idle" => run # meta.v
  /\ run' = Parse(meta)
  /\ pc' = "idle"
  /\ op' = "loadRun"
  /\ pre' = Snapshot
  /\ calls' = << >>
  /\ result' = "returned" /\ raised' = ""
  /\ arg' = 0 /\ config' = << >> /\ retries' = 0
  /\ LocalsGone
  /\ runDir' = LoadedRunDir(RunId, FreshId)
  /\ UNCHANGED << meta, log, now, callsLeft, crashed, dirs, entries, listed >>

Next ==
  \/ \E cfg \in Configs, r \in 0..MaxRetries : Start(cfg, r)
  \/ Resume
  \/ \E stepIndex \in -1..MaxSteps : RetryFromStep(stepIndex)
  \/ ExecuteStepBegin
  \/ RoleSucceeds
  \/ \E msg \in Msgs : RoleFails(msg)
  \/ BackoffElapsed
  \/ Exhausted
  \/ Complete
  \/ Crash
  \/ LoadRun

Spec == Init /\ [][Next]_vars

\* ------------------------------------------------- failing file writes
\* The message of the error a failed write of meta.json raises.
WriteError == "ENOSPC: no space left on device"

\* executeStep when its first saveMetadata fails: the step is marked
\* running in memory and logged, the write raises before the role is
\* invoked, and the error leaves executeStep into the catch of the while
\* loop, which counts the attempt like any other failure.
ExecuteStepSaveFails ==
  /\ pc = "loop"
  /\ callsLeft > 0
  /\ run' = [run EXCEPT !.currentStep = i,
                        !.steps[i + 1].status = "running",
                        !.steps[i + 1].startedAt = Some(now)]
  /\ lastError' = CaughtError(lastError, WriteError)
  /\ attempts' = attempts + 1
  /\ IF RetryAgain(attempts', retries)
     THEN /\ log' = log \o << LogEntry("info", "Starting step", i),
                              RetryingEntry(i, attempts', retries) >>
          /\ pc' = "backoff"
     ELSE /\ log' = Append(log, LogEntry("info", "Starting step", i))
          /\ pc' = "exhausted"
  /\ callsLeft' = callsLeft - 1
  /\ UNCHANGED << meta, now, op, arg, config, retries, i, startTime, result,
                  raised, pre, calls, crashed, runDir, dirs,
                  entries, listed >>

NextIO ==
  \/ Next
  \/ ExecuteStepSaveFails

\* The engine on a file system whose writes of meta.json can fail.
SpecIO == Init /\ [][NextIO]_vars

\* ------------------------------------------- unreadable run documents
\* A meta.json whose text is not JSON.
NotJson == [tag |-> "text"]

\* A meta.json holding valid JSON without any field of a run: {}.
EmptyObject == [tag |-> "json", v |-> << >>]

Unreadable == {Absent, NotJson, EmptyObject}

\* The error fs.readFile or JSON.parse raises in loadRun.
LoadError(doc) ==
  CASE doc = Absent -> "ENOENT"
    [] doc = NotJson -> "SyntaxError"
    [] OTHER -> ""

\* While no process drives the run, its meta.json is removed or
\* overwritten from outside the engine.
Damage(doc) ==
  /\ pc \in {"idle", "stopped"}
  /\ IsSet(meta)
  /\ meta' = doc
  /\ pc' = "stopped"
  /\ UNCHANGED << run, log, now, op, arg, config, retries, i, attempts,
                  lastError, startTime, result, raised, pre, calls, callsLeft,
                  crashed, runDir, dirs,
                  entries, listed >>

\* loadRun when meta.json is not a document written by saveMetadata: a
\* missing file and text that is not JSON raise out of loadRun; any value
\* JSON.parse accepts becomes the run of the engine that is returned,
\* without a look at its fields.
LoadRunUnreadable ==
  /\ pc \in {"idle", "stopped"}
  /\ meta \in Unreadable
  /\ op' = "loadRun"
  /\ pre' = Snapshot
  /\ calls' = << >>
  /\ arg' = 0 /\ config' = << >> /\ retries' = 0
  /\ LocalsGone
  /\ IF LoadError(meta) # ""
     THEN /\ result' = "raised" /\ raised' = LoadError(meta)
          /\ pc' = "stopped"
          /\ UNCHANGED << run, runDir >>
     ELSE /\ result' = "returned" /\ raised' = ""
          /\ pc' = "unusable"
          /\ run' = Parse(meta)
          /\ runDir' = LoadedRunDir(RunId, FreshId)
  /\ UNCHANGED << meta, log, now, callsLeft, crashed, dirs, entries, listed >>

NextLoad ==
  \/ Next
  \/ \E doc \in Unreadable : Damage(doc)
  \/ LoadRunUnreadable

\* The engine with run documents that loadRun cannot read as a run.
SpecLoad == Init /\ [][NextLoad]_vars

\* ------------------------------------------ executeStep called directly
\* (mutant) currentStep is assigned before the step is looked up.
MissingStepRunMarked(r, stepIndex) == [r EXCEPT !.currentStep = stepIndex]

\* The run after executeStep(stepIndex) found no step at stepIndex: the
\* lookup and its throw come before the first assignment.
MissingStepRun(r, stepIndex) == r

\* !this.run.steps[stepIndex]: the array has no element at stepIndex.
StepMissing(steps, stepIndex) == stepIndex + 1 \notin DOMAIN steps

\* executeStep(stepIndex) called by the engine's user: without a step at
\* stepIndex it raises at once; otherwise the step is marked running,
\* logged and saved, and the role is called.
ExecuteStep(stepIndex) ==
  /\ pc = "idle"
  /\ op' = "executeStep"
  /\ arg' = stepIndex
  /\ pre' = Snapshot
  /\ calls' = << >>
  /\ IF StepMissing(run.steps, stepIndex)
     THEN /\ run' = MissingStepRun(run, stepIndex)
          /\ result' = "raised" /\ raised' = "Step not found"
          /\ UNCHANGED << meta, log, pc, i, startTime, callsLeft >>
     ELSE /\ callsLeft > 0
          /\ run' = [run EXCEPT !.currentStep = stepIndex,
                                !.steps[stepIndex + 1].status = "running",
                                !.steps[stepIndex + 1].startedAt = Some(now)]
          /\ log' = Append(log, LogEntry("info", "Starting step", stepIndex))
          /\ meta' = saveMetadata(run')
          /\ i' = stepIndex
          /\ startTime' = now
          /\ callsLeft' = callsLeft - 1
          /\ result' = "none" /\ raised' = ""
          /\ pc' = "step"
  /\ UNCHANGED << now, config, retries, attempts, lastError, crashed, runDir,
                  dirs, entries, listed >>

\* The role of a directly executed step returns its artifacts: they are
\* recorded, logged and saved, and executeStep returns.
ExecuteStepReturns ==
  /\ pc = "step"
  /\ \E t \in Later(now) :
       /\ run' = [run EXCEPT !.steps[i + 1].status = "completed",
                             !.steps[i + 1].completedAt = Some(t),
                             !.steps[i + 1].duration = Some(t - startTime),
                             !.steps[i + 1].artifacts =
                                Some(executeRole(run.steps[i + 1].step.role))]
       /\ now' = t
  /\ log' = Append(log, LogEntry("info", "Completed step", i))
  /\ meta' = saveMetadata(run')
  /\ calls' = Append(calls, << i, "ok" >>)
  /\ result' = "returned"
  /\ pc' = "idle"
  /\ LocalsGone
  /\ UNCHANGED << op, arg, config, retries, raised, pre, callsLeft, crashed,
                  runDir, dirs, entries, listed >>

\* The role of a directly executed step raises: the failure is recorded,
\* logged and saved, and executeStep raises the role's error.
ExecuteStepRaises(msg) ==
  /\ pc = "step"
  /\ \E t \in Later(now) :
       /\ run' = [run EXCEPT !.steps[i + 1].status = "failed",
                             !.steps[i + 1].completedAt = Some(t),
                             !.steps[i + 1].duration = Some(t - startTime),
                             !.steps[i + 1].error = Some(msg)]
       /\ now' = t
  /\ log' = Append(log, LogEntry("error", "Failed step", i))
  /\ meta' = saveMetadata(run')
  /\ calls' = Append(calls, << i, "fail" >>)
  /\ result' = "raised" /\ raised' = msg
  /\ pc' = "idle"
  /\ LocalsGone
  /\ UNCHANGED << op, arg, config, retries, pre, callsLeft, crashed,
                  runDir, dirs, entries, listed >>

NextStep ==
  \/ \E cfg \in Configs : Start(cfg, DefaultRetries)
  \/ ExecuteStepBegin
  \/ RoleSucceeds
  \/ \E msg \in Msgs : RoleFails(msg)
  \/ BackoffElapsed
  \/ Exhausted
  \/ Complete
  \/ Crash
  \/ LoadRun
  \/ \E stepIndex \in -1..MaxSteps : ExecuteStep(stepIndex)
  \/ ExecuteStepReturns
  \/ \E msg \in Msgs : ExecuteStepRaises(msg)

\* The engine whose user starts runs with the default options, loads
\* them, and executes single steps.
SpecStep == Init /\ [][NextStep]_vars

\* -------------------------------------------------------------- listRuns
\* The meta.json of a run another engine has written, started at time t.
OtherRun(id, t) ==
  Some([id |-> id, workflow |-> "build", startedAt |-> t,
        completedAt |-> Absent, status |-> "running", currentStep |-> 0,
        steps |-> << >>, error |-> Absent])

\* What .codeos/run can hold under a name: a plain file, or a directory
\* with no meta.json, with one that is not JSON, with {} or with a run.
EntriesNamed(name) ==
  {[name |-> name, isDirectory |-> FALSE, doc |-> Absent]}
    \cup {[name |-> name, isDirectory |-> TRUE, doc |-> d] :
            d \in Unreadable \cup {OtherRun(name, t) : t \in 0..MaxClock}}

EntryName(k) ==
  CASE k = 1 -> "run-a" [] k = 2 -> "run-b" [] k = 3 -> "run-c"
    [] OTHER -> "run-d"

\* The entries whose meta.json is read and parsed without an error: the
\* others are skipped by the inner catch.
IsPushed(e) == e.isDirectory /\ LoadError(e.doc) = ""

Pushed(es) ==
  LET sel == SelectSeq(es, IsPushed)
  IN [k \in 1..Len(sel) |-> Parse(sel[k].doc)]

NaN == [tag |-> "NaN"]

\* new Date(r.startedAt).getTime()
getTime(r) == IF "startedAt" \in DOMAIN r THEN Some(r.startedAt) ELSE NaN

\* The sort comparator is negative: a is put before b.  A NaN difference
\* counts as 0.
ComesFirst(a, b) ==
  /\ IsSet(getTime(a)) /\ IsSet(getTime(b))
  /\ getTime(b).v - getTime(a).v < 0

\* Whether the comparator is consistent on rs: "neither comes first" must
\* be transitive, which a NaN between two different times breaks.
ConsistentOn(rs) ==
  \A a, b, c \in DOMAIN rs :
    (~ComesFirst(rs[a], rs[b]) /\ ~ComesFirst(rs[b], rs[a])
       /\ ~ComesFirst(rs[b], rs[c]) /\ ~ComesFirst(rs[c], rs[b])) =>
      (~ComesFirst(rs[a], rs[c]) /\ ~ComesFirst(rs[c], rs[a]))

Orders(n) ==
  { p \in [1..n -> 1..n] : \A a, b \in 1..n : p[a] = p[b] => a = b }

\* Array.prototype.sort: stable under a consistent comparator, any order
\* of the elements under an inconsistent one.
SortResults(rs) ==
  { [k \in 1..Len(rs) |-> rs[p[k]]] :
      p \in { q \in Orders(Len(rs)) :
                ConsistentOn(rs) =>
                  \A a, b \in 1..Len(rs) :
                    a < b => /\ ~ComesFirst(rs[q[b]], rs[q[a]])
                             /\ ~ComesFirst(rs[q[a]], rs[q[b]]) => q[a] < q[b] } }

\* The lists listRuns can return for .codeos/run: none of the runs when
\* readdir fails, else the parsed documents, sorted.
listRuns(dir) ==
  IF dir = Absent THEN {<< >>} ELSE SortResults(Pushed(dir.v))

\* .codeos/run comes to exist.
MakeRunsDir ==
  /\ entries = Absent /\ listed = Absent
  /\ entries' = Some(<< >>)
  /\ UNCHANGED << run, meta, log, now, pc, op, arg, config, retries, i,
                  attempts, lastError, startTime, result, raised, pre, calls,
                  callsLeft, crashed, runDir, dirs, listed >>

\* Something is put into .codeos/run by another process.
AddEntry(e) ==
  /\ IsSet(entries) /\ listed = Absent
  /\ Len(entries.v) < MaxEntries
  /\ e.name = EntryName(Len(entries.v) + 1)
  /\ entries' = Some(Append(entries.v, e))
  /\ UNCHANGED << run, meta, log, now, pc, op, arg, config, retries, i,
                  attempts, lastError, startTime, result, raised, pre, calls,
                  callsLeft, crashed, runDir, dirs, listed >>

\* WorkflowEngine.listRuns(root)
ListRuns ==
  /\ listed = Absent
  /\ \E rs \in listRuns(entries) : listed' = Some(rs)
  /\ UNCHANGED << run, meta, log, now, pc, op, arg, config, retries, i,
                  attempts, lastError, startTime, result, raised, pre, calls,
                  callsLeft, crashed, runDir, dirs, entries >>

NextList ==
  \/ MakeRunsDir
  \/ \E k \in 1..MaxEntries : \E e \in EntriesNamed(EntryName(k)) : AddEntry(e)
  \/ ListRuns

\* listRuns on the directories other processes have left.
SpecList == Init /\ [][NextList]_vars

\* ------------------------------------------------------------ properties
Indices(r) == 0..(Len(r.steps) - 1)

StepAt(r, k) == r.steps[k + 1]

AllCompleted(r) == \A k \in Indices(r) : StepAt(r, k).status = "completed"

\* The outcomes of the role invocations made for step k in this operation.
CallsOf(k) == { c \in 1..Len(calls) : calls[c][1] = k }

AllCalls(outcome, ks) ==
  \A c \in 1..Len(calls) : calls[c][1] \in ks => calls[c][2] = outcome

Ended(name) == op = name /\ pc = "idle"

\* C1: when start has ended and, for some step k, every invocation of the
\* role of step k failed and every invocation for an earlier step succeeded,
\* then start raised, steps 0..k-1 are completed, step k is failed after
\* exactly retries + 1 attempts, steps k+1..N-1 are pending, the run is
\* failed and run.error is the message of the failure that was raised.
C1_StartFailsAtStepK ==
  Ended("start") =>
    \A k \in Indices(run) :
      (AllCalls("fail", {k}) /\ AllCalls("ok", 0..(k - 1))) =>
        /\ result = "raised"
        /\ \A j \in 0..(k - 1) : StepAt(run, j).status = "completed"
        /\ StepAt(run, k).status = "failed"
        /\ Cardinality(CallsOf(k)) = retries + 1
        /\ \A j \in (k + 1)..(Len(run.steps) - 1) : StepAt(run, j).status = "pending"
        /\ run.status = "failed"
        /\ run.error = Some(raised)
        /\ StepAt(run, k).error = Some(raised)

C1_Witness ==
  /\ Ended("start") /\ result = "raised" /\ retries = 1
  /\ calls = << << 0, "ok" >>, << 1, "fail" >>, << 1, "fail" >> >>
  /\ run.error = Some("lint failed")

\* C2: run.status is completed only when every StepResult of the run is
\* completed (in every state reached by start, resume and retryFromStep).
C2_CompletedOnlyWhenAllCompleted ==
  (~crashed /\ run.status = "completed") => AllCompleted(run)

\* C3: during and after a resume, every StepResult before the resume index
\* is what it was when resume was called, in memory and in meta.json.
C3_ResumeKeepsPriorSteps ==
  (op = "resume" /\ arg >= 0 /\ pc # "stopped") =>
    \A k \in 0..(arg - 1) :
      /\ StepAt(run, k) = StepAt(pre.run, k)
      /\ StepAt(meta.v, k) = StepAt(pre.meta.v, k)

\* The case of C4: retryFromStep(k) has ended, it was called on a run whose
\* steps 0..k-1 were completed and whose step k was failed, and every role
\* invoked since succeeded.
C4_Case ==
  /\ Ended("retryFromStep")
  /\ arg \in Indices(pre.run)
  /\ \A j \in 0..(arg - 1) : StepAt(pre.run, j).status = "completed"
  /\ StepAt(pre.run, arg).status = "failed"
  /\ AllCalls("ok", Indices(pre.run))

C4_FrameAndCompletion ==
  /\ result = "returned"
  /\ \A j \in 0..(arg - 1) : StepAt(run, j) = StepAt(pre.run, j)
  /\ AllCompleted(run)
  /\ run.status = "completed"
  /\ Len(run.steps) = Len(pre.run.steps)

\* C4 (as stated): ... steps k..N-1 have fresh startedAt values strictly
\* later than before the retry call (later than the step's earlier
\* startedAt and than the time of the call).
C4_RetryFromStepStrictlyLater ==
  C4_Case =>
    /\ C4_FrameAndCompletion
    /\ \A j \in arg..(Len(run.steps) - 1) :
         /\ IsSet(StepAt(run, j).startedAt)
         /\ StepAt(run, j).startedAt.v > pre.now
         /\ IsSet(StepAt(pre.run, j).startedAt) =>
              StepAt(run, j).startedAt.v > StepAt(pre.run, j).startedAt.v

\* C4 (amended): retryFromStep(k) on a run whose steps 0..k-1 are completed
\* and whose step k failed, when all roles then succeed: steps 0..k-1 are
\* untouched, steps k..N-1 have fresh startedAt values not earlier than the
\* time of the retry call and than their earlier startedAt, every step is
\* completed and the run is completed.
C4_RetryFromStepNotEarlier ==
  C4_Case =>
    /\ C4_FrameAndCompletion
    /\ \A j \in arg..(Len(run.steps) - 1) :
         /\ IsSet(StepAt(run, j).startedAt)
         /\ StepAt(run, j).startedAt.v >= pre.now
         /\ IsSet(StepAt(pre.run, j).startedAt) =>
              StepAt(run, j).startedAt.v >= StepAt(pre.run, j).startedAt.v

C4_Witness ==
  /\ C4_Case /\ arg = 1 /\ Len(run.steps) = 2
  /\ StepAt(run, 1).startedAt.v > StepAt(pre.run, 1).startedAt.v
  /\ StepAt(run, 0).completedAt = StepAt(pre.run, 0).completedAt

\* C5: retryFromStep with an index below 0 or not below N raises the
\* invalid-index error, invokes no role and leaves the in-memory run,
\* meta.json and the log as they were.
C5_RetryInvalidIndex ==
  (op = "retryFromStep" /\ (arg < 0 \/ arg >= Len(pre.run.steps))) =>
    /\ pc = "idle"
    /\ result = "raised" /\ raised = "Invalid step index"
    /\ calls = << >>
    /\ run = pre.run /\ meta = pre.meta /\ log = pre.log

C5_Witness ==
  /\ op = "retryFromStep" /\ arg = Len(pre.run.steps) /\ arg = 2
  /\ raised = "Invalid step index"
  /\ pre.run.status = "failed"

\* C6: resume on a run whose steps are all completed raises "No steps to
\* resume", invokes no role and leaves the run, meta.json and the log as
\* they were.
C6_ResumeNothingToResume ==
  (op = "resume" /\ AllCompleted(pre.run)) =>
    /\ pc = "idle"
    /\ result = "raised" /\ raised = "No steps to resume"
    /\ calls = << >>
    /\ run = pre.run /\ meta = pre.meta /\ log = pre.log

C6_Witness ==
  /\ op = "resume" /\ AllCompleted(pre.run) /\ Len(pre.run.steps) = 2
  /\ pre.run.status = "completed"
  /\ raised = "No steps to resume"

\* C7: initialization leaves exactly one pending StepResult per step of the
\* definition, in the definition's order, and from then on no step changes
\* the number of StepResults or the step a StepResult belongs to.
C7_StepsAlignedAndNeverResized ==
  [][ /\ (op = "none" /\ op' = "start") =>
           run'.steps = [k \in 1..Len(config') |-> PendingStep(config'[k])]
      /\ op # "none" =>
           /\ Len(run'.steps) = Len(run.steps)
           /\ \A k \in 1..Len(run.steps) : run'.steps[k].step = run.steps[k].step
    ]_vars

C7_Witness ==
  /\ Ended("resume") /\ result = "returned"
  /\ Len(run.steps) = 2 /\ Len(pre.run.steps) = 2
  /\ run.steps[2].step.role = "builder"

\* Work left in the operation in progress: a natural number that every
\* step of the engine makes smaller.
Rank ==
  CASE pc = "loop" -> 2
    [] pc = "role" -> 1
    [] pc = "backoff" -> 3
    [] pc = "exhausted" -> 1
    [] OTHER -> 0

Remaining ==
  IF pc \in {"idle", "stopped"} THEN 0
  ELSE (Len(config) - i) * (3 * (retries + 1) + 2)
       + (retries + 1 - attempts) * 3 + Rank

C8_Completed ==
  (Ended("start") /\ AllCalls("ok", Indices(run))) =>
    /\ result = "returned"
    /\ run.status = "completed"
    /\ AllCompleted(run)
    /\ Len(run.steps) = Len(config)
    /\ Len(calls) = Len(config)
    /\ IsSet(run.completedAt)
    /\ meta = Some(run)

\* C8: start terminates (every step of the engine lowers the work left,
\* which is never negative) and, when every role invocation succeeded, it
\* returns a run that is completed, with every StepResult completed and
\* completedAt set, and meta.json holds that same run.
C8_StartCompletes ==
  /\ [](Remaining >= 0 /\ C8_Completed)
  /\ [][(pc \notin {"idle", "stopped"} /\ pc' # "stopped") =>
           Remaining' < Remaining]_vars

C8_Witness ==
  /\ Ended("start") /\ result = "returned" /\ Len(run.steps) = 2
  /\ calls = << << 0, "ok" >>, << 1, "ok" >> >>
  /\ meta = Some(run)

Running(r) == { k \in Indices(r) : StepAt(r, k).status = "running" }

\* C9: at most one StepResult of the run is running, in memory and in
\* meta.json.
C9_AtMostOneRunning ==
  /\ Cardinality(Running(run)) <= 1
  /\ meta # Absent => Cardinality(Running(meta.v)) <= 1

\* C10: the status of a StepResult of the engine's run changes only from
\* pending to running, from running to completed or failed, or to pending
\* by retryFromStep's reset.
C10_StatusTransitions ==
  [][ (op' # "loadRun" /\ Len(run.steps) = Len(run'.steps)) =>
        \A k \in 1..Len(run.steps) :
          LET s == run.steps[k].status
              t == run'.steps[k].status
          IN \/ s = t
             \/ s = "pending" /\ t = "running"
             \/ s = "running" /\ t \in {"completed", "failed"}
             \/ t = "pending" /\ op' = "retryFromStep" /\ pc = "idle"
    ]_vars

\* C11: in start, resume and retryFromStep a step is marked running and
\* its role invoked only when every earlier step of the run is completed,
\* and inside one operation a later step is invoked only after the
\* invocation before it succeeded (none after a step exhausted its
\* retries).
C11_NextStepOnlyAfterCompleted ==
  /\ (~crashed /\ pc = "role") =>
        \A j \in 0..(i - 1) : StepAt(run, j).status = "completed"
  /\ \A c \in 1..(Len(calls) - 1) :
        calls[c + 1][1] > calls[c][1] => calls[c][2] = "ok"

\* The steps whose role was invoked in this operation.
CalledSteps == { calls[c][1] : c \in 1..Len(calls) }

\* C12: in one operation the role of a step is invoked at most
\* retries + 1 times; a successful invocation is the last one for its
\* step; and when the operation has ended and every invocation for a step
\* failed, there were exactly retries + 1 of them.
C12_AttemptsBounded ==
  \A k \in CalledSteps :
    /\ Cardinality(CallsOf(k)) <= retries + 1
    /\ \A c \in CallsOf(k) :
         calls[c][2] = "ok" => \A d \in CallsOf(k) : d <= c
    /\ (pc = "idle" /\ AllCalls("fail", {k})) =>
         Cardinality(CallsOf(k)) = retries + 1

C12_Witness ==
  /\ Ended("start") /\ retries = 1 /\ result = "returned"
  /\ calls = << << 0, "fail" >>, << 0, "ok" >>, << 1, "ok" >> >>

EngineOps == {"start", "resume", "retryFromStep"}

\* C13: when an operation has ended after the last invocation of a role
\* failed (the step's retries are exhausted), the operation raised that
\* invocation's message, the run is failed with that message as run.error
\* and completedAt set, the step is failed with the same message, meta.json
\* holds this state, and no step after it was invoked or started.
C13_RetriesExhausted ==
  (pc = "idle" /\ op \in EngineOps /\ calls # << >>
     /\ calls[Len(calls)][2] = "fail") =>
    LET k == calls[Len(calls)][1]
    IN /\ result = "raised"
       /\ run.status = "failed"
       /\ IsSet(run.completedAt)
       /\ StepAt(run, k).status = "failed"
       /\ IsSet(StepAt(run, k).error)
       /\ run.error = StepAt(run, k).error
       /\ raised = run.error.v
       /\ meta = saveMetadata(run)
       /\ \A c \in 1..Len(calls) : calls[c][1] <= k
       /\ \A j \in (k + 1)..(Len(run.steps) - 1) :
            /\ StepAt(run, j).status = "pending"
            /\ ~IsSet(StepAt(run, j).startedAt)

C13_Witness ==
  /\ Ended("start") /\ result = "raised" /\ retries = 1
  /\ Len(run.steps) = 2
  /\ calls = << << 0, "fail" >>, << 0, "fail" >> >>
  /\ raised = "Test failure"
  /\ meta.v.status = "failed" /\ meta.v.error = Some("Test failure")

\* What reading an optional field gives: undefined for a missing key as
\* for a key that holds undefined.
Value(o) == IF IsSet(o) THEN o ELSE Undef

SameStepValues(a, b) ==
  /\ a.step = b.step /\ a.status = b.status
  /\ Value(a.startedAt) = Value(b.startedAt)
  /\ Value(a.completedAt) = Value(b.completedAt)
  /\ Value(a.duration) = Value(b.duration)
  /\ Value(a.error) = Value(b.error)
  /\ Value(a.artifacts) = Value(b.artifacts)

SameValues(a, b) ==
  /\ a.id = b.id /\ a.workflow = b.workflow /\ a.startedAt = b.startedAt
  /\ a.status = b.status /\ a.currentStep = b.currentStep
  /\ Value(a.completedAt) = Value(b.completedAt)
  /\ Value(a.error) = Value(b.error)
  /\ Len(a.steps) = Len(b.steps)
  /\ \A k \in 1..Len(a.steps) : SameStepValues(a.steps[k], b.steps[k])

\* The run that loadRun gets back from the document saveMetadata writes
\* for run r.
RoundTrip(r) == Parse(saveMetadata(r))

C15_RunRunningWhileStepRuns ==
  pc = "role" =>
    /\ StepAt(run, i).status = "running"
    /\ run.status = "running"
    /\ meta.v.status = "running"

\* C16: a StepResult carries an error only while its status is failed, in
\* memory and in meta.json (a step that failed an attempt and is run
\* again, or has succeeded on the retry, carries none).
C16_ErrorOnlyWhenFailed ==
  /\ \A k \in Indices(run) :
        IsSet(StepAt(run, k).error) => StepAt(run, k).status = "failed"
  /\ IsSet(meta) =>
        \A k \in Indices(meta.v) :
          IsSet(StepAt(meta.v, k).error) => StepAt(meta.v, k).status = "failed"

\* C17: only the failure of a role is retried: once executeStep has been
\* left by another error (here a failed write of meta.json), the loop
\* makes no further attempt, neither waiting for a retry nor starting one.
C17_OnlyStepFailureRetried ==
  (IsSet(lastError) /\ lastError.v \notin Msgs) =>
    pc \notin {"backoff", "loop", "role"}

Cleared(s) ==
  /\ s.status = "pending"
  /\ ~IsSet(s.startedAt) /\ ~IsSet(s.completedAt) /\ ~IsSet(s.duration)
  /\ ~IsSet(s.error) /\ ~IsSet(s.artifacts)

\* C18: when retryFromStep(k) with a valid k is about to execute its first
\* step, every StepResult from k on is pending with startedAt, completedAt,
\* duration, error and artifacts cleared, run.status is running and
\* run.error and run.completedAt are cleared; and when retryFromStep has
\* returned on a run that was failed, the run is completed and carries no
\* error, in memory and in meta.json.
C18_RetryResetsBeforeExecuting ==
  /\ (op = "retryFromStep" /\ arg \in Indices(pre.run) /\ pc = "loop"
        /\ calls = << >> /\ attempts = 0) =>
       /\ i = arg
       /\ \A j \in arg..(Len(run.steps) - 1) : Cleared(StepAt(run, j))
       /\ run.status = "running"
       /\ ~IsSet(run.error) /\ ~IsSet(run.completedAt)
  /\ (Ended("retryFromStep") /\ result = "returned"
        /\ pre.run.status = "failed") =>
       /\ run.status = "completed"
       /\ ~IsSet(run.error) /\ ~IsSet(meta.v.error)

C18_Witness ==
  /\ op = "retryFromStep" /\ pc = "loop" /\ calls = << >> /\ arg = 0
  /\ Len(run.steps) = 2
  /\ pre.run.status = "failed" /\ IsSet(pre.run.error)
  /\ IsSet(pre.run.completedAt)
  /\ StepAt(pre.run, 0).status = "completed"
  /\ IsSet(StepAt(pre.run, 0).artifacts)
  /\ StepAt(pre.run, 1).status = "failed"
  /\ IsSet(StepAt(pre.run, 1).error)
  /\ Cleared(StepAt(run, 0)) /\ Cleared(StepAt(run, 1))

Specs(r) == [k \in 1..Len(r.steps) |-> r.steps[k].step]

Open(r) == { k \in Indices(r) : StepAt(r, k).status \in {"pending", "failed"} }

\* The resume index of run r: its first pending or failed step.
FirstOpen(r) == CHOOSE k \in Open(r) : \A j \in Open(r) : k <= j

C20_LoadRaisesOnUnreadable ==
  (op = "loadRun" /\ pre.meta \in Unreadable) =>
    /\ result = "raised"
    /\ raised = IF pre.meta = Absent THEN "ENOENT" ELSE "SyntaxError"
    /\ pc = "stopped"
    /\ meta = pre.meta /\ log = pre.log

\* The documents of .codeos/run that hold a run.
WellFormed(dir) ==
  IF dir = Absent THEN {}
  ELSE { dir.v[k].doc.v : k \in { j \in 1..Len(dir.v) :
                                    dir.v[j].isDirectory /\ IsSet(dir.v[j].doc) } }

\* C21: listRuns returns, without failing, exactly the runs whose
\* meta.json holds a run, each once, by startedAt descending; entries
\* without a readable run document are left out, and without a
\* .codeos/run directory the list is empty.
C21_ListsWellFormedDescending ==
  IsSet(listed) =>
    /\ { listed.v[k] : k \in 1..Len(listed.v) } = WellFormed(entries)
    /\ Len(listed.v) = Cardinality(WellFormed(entries))
    /\ \A a, b \in 1..Len(listed.v) :
         a < b => listed.v[a].startedAt >= listed.v[b].startedAt
    /\ entries = Absent => listed.v = << >>

\* C22: run.currentStep is the index of the step started last, and no
\* step of start or resume lowers it: only retryFromStep moves it to a
\* lower index.
C22_CurrentStepNeverLowered ==
  /\ [](pc = "role" => run.currentStep = i)
  /\ [][op' \in {"start", "resume"} =>
          run'.currentStep >= run.currentStep]_vars

\* C23: while the role of step i is executing, meta.json shows step i
\* running with its new startedAt: executeStep writes the document when it
\* marks the step running, before the role is called, and writes it again
\* when the role has returned or raised, with the step completed or failed.
C23_SavedBeforeAndAfterRole ==
  /\ [](pc = "role" =>
          /\ IsSet(meta)
          /\ StepAt(meta.v, i).status = "running"
          /\ StepAt(meta.v, i).startedAt = StepAt(run, i).startedAt
          /\ meta = saveMetadata(run))
  /\ [][(pc = "loop" /\ pc' = "role") =>
          (meta' = saveMetadata(run') /\ StepAt(meta'.v, i).status = "running")]_vars
  /\ [][(pc = "role" /\ pc' \notin {"role", "stopped"}) =>
          /\ meta' # meta
          /\ StepAt(meta'.v, i).status \in {"completed", "failed"}
          /\ StepAt(meta'.v, i) = JsonStep(StepAt(run', i))]_vars

C23_Witness ==
  /\ pc = "role" /\ i = 1 /\ op = "start"
  /\ StepAt(meta.v, 1).status = "running"
  /\ pre.meta = Absent
  /\ StepAt(meta.v, 0).status = "completed"

RunStatuses == {"running", "completed", "failed"}

StepStatuses == {"pending", "running", "completed", "failed"}

\* C24: in every state reached through start, resume, retryFromStep and
\* the step executions they make, run.status is running, completed or
\* failed and every step status is pending, running, completed or failed,
\* in memory and in meta.json: never cancelled, never skipped.
C24_NoCancelledNoSkipped ==
  /\ run.status \in RunStatuses
  /\ \A k \in Indices(run) : StepAt(run, k).status \in StepStatuses
  /\ IsSet(meta) =>
       /\ meta.v.status \in RunStatuses
       /\ \A k \in Indices(meta.v) : StepAt(meta.v, k).status \in StepStatuses

C24_Witness ==
  /\ op = "retryFromStep" /\ pc = "role" /\ arg = 0
  /\ pre.run.status = "failed"
  /\ StepAt(pre.run, 0).status = "completed"
  /\ StepAt(pre.run, 1).status = "failed"
  /\ run.status = "running"
  /\ StepAt(run, 0).status = "running"
  /\ StepAt(run, 1).status = "pending"

\* The records the operation in progress (or ended last) has logged.
OpLog == SubSeq(log, Len(pre.log) + 1, Len(log))

Warnings(k) ==
  LET Test(e) == e.level = "warn" /\ e.step = k
  IN SelectSeq(OpLog, Test)

FailedStepRecords(k) ==
  LET Test(e) == e.level = "error" /\ e.step = k
  IN SelectSeq(OpLog, Test)

\* The case of C25: an operation has ended after every one of the
\* retries + 1 invocations of the role of step k failed.
C25_Case(k) ==
  /\ pc = "idle" /\ op \in EngineOps
  /\ CallsOf(k) # {} /\ AllCalls("fail", {k})

\* C25 (as stated): for a step that fails all retries + 1 attempts the log
\* holds retries + 1 warn records for that step, followed by an error
\* record.
C25_WarnPerFailedAttempt ==
  \A k \in Indices(run) :
    C25_Case(k) =>
      /\ Len(Warnings(k)) = retries + 1
      /\ log[Len(log)].level = "error"

\* C25 (amended): for a step that fails all retries + 1 attempts the log of
\* the operation holds one warn record after each failed attempt that is
\* followed by a retry (retries of them, carrying the attempt counts
\* 1..retries out of retries + 1), one error record of the step per failed
\* attempt, and last of all an error record for the run; the error is
\* raised to the caller.
C25_WarnPerRetriedAttempt ==
  \A k \in Indices(run) :
    C25_Case(k) =>
      /\ Len(Warnings(k)) = retries
      /\ \A n \in 1..retries :
           /\ Warnings(k)[n].attempt = n
           /\ Warnings(k)[n].of = retries + 1
      /\ Len(FailedStepRecords(k)) = retries + 1
      /\ log[Len(log)] = LogEntry("error", "Workflow failed", -1)
      /\ result = "raised"
      /\ IsSet(StepAt(run, k).error) /\ raised = StepAt(run, k).error.v

C25_Witness ==
  /\ C25_Case(1) /\ op = "start" /\ retries = 1
  /\ Len(Warnings(1)) = 1 /\ Len(FailedStepRecords(1)) = 2
  /\ Warnings(1)[1].attempt = 1

C27_ExecuteStepOutOfRange ==
  /\ [][(pc = "idle" /\ op' = "executeStep"
           /\ (arg' < 0 \/ arg' >= Len(run.steps)))
          => /\ result' = "raised" /\ raised' = "Step not found"
             /\ pc' = "idle"
             /\ run' = run /\ meta' = meta /\ log' = log
             /\ dirs' = dirs /\ calls' = << >>]_vars
  /\ []((Ended("executeStep") /\ raised = "Step not found")
          => /\ result = "raised"
             /\ run = pre.run /\ meta = pre.meta /\ log = pre.log)

\* executeStep was called with the number of steps of a started run as
\* its stepIndex, and raised.
C27_Witness ==
  /\ Ended("executeStep")
  /\ Len(run.steps) = 2
  /\ arg = Len(run.steps)
  /\ result = "raised"
  /\ IsSet(meta)
  /\ Len(log) > 0

\* C28: run.error is present only while run.status is failed; a run that
\* has reached completed, also by a resume after a failure, has no error.
C28_RunErrorOnlyWhenFailed == IsSet(run.error) => run.status = "failed"

\* C29: when the process stopped while step k was running and the run was
\* loaded again (step k is still recorded as running), resume does not
\* raise its nothing-to-resume error and starts executing at step k or
\* before it, never at a later step.
C29_ResumeReexecutesRunningStep ==
  [][(pc = "idle" /\ op' = "resume" /\ crashed)
      => \A k \in Indices(run) :
           StepAt(run, k).status = "running"
             => /\ raised' # "No steps to resume"
                /\ pc' = "loop"
                /\ i' <= k]_vars

\* C30: without I/O failures, whenever start, resume or retryFromStep has
\* returned or raised, and whenever the execution of one step has returned
\* or raised, meta.json is the serialization of the engine's run; the
\* engine's directory is always that of its run's id, also after loadRun,
\* and no run directory other than that one is ever created.
C30_WriteThrough ==
  /\ []((pc = "idle" /\ op \in EngineOps) => meta = saveMetadata(run))
  /\ [][(pc = "role" /\ pc' \notin {"role", "stopped"})
          => meta' = saveMetadata(run')]_vars
  /\ [](runDir = RunDir(run.id))
  /\ [](dirs \subseteq {RunDir(run.id)})
  /\ [][op' \in EngineOps => dirs' \subseteq dirs \cup {RunDir(run.id)}]_vars

\* A run loaded after the process had stopped was resumed to its end: its
\* document is that of the returned run and its directory is the only one.
C30_Witness ==
  /\ Ended("resume")
  /\ crashed
  /\ result = "returned"
  /\ run.status = "completed"
  /\ meta = saveMetadata(run)
  /\ dirs = {RunDir(RunId)}
====
